---- MODULE Spec2Model ----
(***************************************************************************)
(* Model of contiguous_view<T, Extent> (src/contiguous-view.h), built with *)
(* assertions enabled.  A program holds one view value and applies the     *)
(* public operations to it; a failed assert aborts the program.  Pointers  *)
(* are byte addresses, size_t is an unsigned integer of SizeBits bits.     *)
(***************************************************************************)
EXTENDS Integers, Naturals, Sequences, FiniteSets, TLC

\* ---------------------------------------------------------------- bounds
StorageLen == 5      \* elements of the caller-owned backing array
ElemSize == 2        \* sizeof(T) of the element type of the backing array
SizeBits == 16       \* width of size_t in the model

\* ------------------------------------------------------- size_t and memory
SizeMod == 2 ^ SizeBits

to_size_t(n) == n % SizeMod

dynamic_extent == to_size_t(-1)

nullptr == 0

Types == {"T", "const T", "byte", "const byte"}

ElemTypes == {"T", "const T"}

sizeof(T) == IF T \in {"byte", "const byte"} THEN 1 ELSE ElemSize

is_const(T) == T \in {"const T", "const byte"}

\* U* converts implicitly to T* (same type, or adding const)
ptr_convertible(U, T) == sizeof(U) = sizeof(T) /\ (is_const(U) => is_const(T))

\* the backing array: StorageLen elements 10, 20, ... placed at address Base
Base == 2 * StorageLen * ElemSize

StorageEnd == Base + StorageLen * ElemSize

arr == [i \in 1..StorageLen |-> 10 * i]

\* byte at an address of the backing array (little-endian elements)
mem(addr) ==
  LET off == addr - Base
  IN (arr[(off \div ElemSize) + 1] \div (256 ^ (off % ElemSize))) % 256

RECURSIVE load(_, _)
load(addr, n) == IF n = 0 THEN 0 ELSE mem(addr) + 256 * load(addr + 1, n - 1)

\* p + n and q - p on T*
ptr_add(T, p, n) == p + n * sizeof(T)

ptr_diff(T, q, p) == (q - p) \div sizeof(T)

\* ---------------------------------------------------------- details::storage
storage_ctor(Size, count) == IF Size = dynamic_extent THEN <<count>> ELSE << >>

storage_size_static0(Size, st) == IF Size = dynamic_extent THEN st[1] ELSE Len(st)
storage_size(Size, st) == IF Size = dynamic_extent THEN st[1] ELSE Size

\* ---------------------------------------------------------- accessors
data(v) == v._data

size(v) == storage_size(v.Extent, v.st)

size_bytes_unscaled(v) == size(v)
size_bytes(v) == to_size_t(sizeof(v.T) * size(v))

empty(v) == size(v) = 0

begin(v) == data(v)

end(v) == ptr_add(v.T, begin(v), size(v))

\* ---------------------------------------------------------- constructors
View(t, extent, s, d) == [T |-> t, st |-> s, _data |-> d, Extent |-> extent]

ctor_default(T, Extent) == View(T, Extent, storage_ctor(Extent, 0), nullptr)

Done(v) == [ok |-> TRUE, v |-> v]

\* the assert fired: no view is constructed
Failed == [ok |-> FALSE]

ctor_count_unchecked(T, Extent, first, count) ==
  Done(View(T, Extent, storage_ctor(Extent, count), first))
ctor_count(T, Extent, first, count) ==
  IF Extent # dynamic_extent /\ count # Extent
    THEN Failed
    ELSE Done(View(T, Extent, storage_ctor(Extent, count), first))

ctor_range(T, Extent, first, last) ==
  LET r == ctor_count(T, Extent, first, to_size_t(ptr_diff(T, last, first)))
  IN IF r.ok /\ first <= last THEN r ELSE Failed

convert_compiles(T, Extent, other) ==
  /\ ptr_convertible(other.T, T)
  /\ (Extent = dynamic_extent \/ other.Extent = dynamic_extent \/ Extent = other.Extent)

ctor_convert(T, Extent, other) == ctor_count(T, Extent, data(other), size(other))

\* ---------------------------------------------------------- sub-ranges
subview_nocheck(v, offset, count) ==
  ctor_count(v.T, dynamic_extent, ptr_add(v.T, data(v), offset),
             IF count = dynamic_extent THEN to_size_t(size(v) - offset) ELSE count)
subview_rest(v, offset, count) ==
  IF offset <= size(v) /\ (count = dynamic_extent \/ count <= to_size_t(size(v) - offset))
    THEN ctor_count(v.T, dynamic_extent, ptr_add(v.T, data(v), offset),
                    to_size_t(size(v) - offset))
    ELSE Failed
subview(v, offset, count) ==
  IF offset <= size(v) /\ (count = dynamic_extent \/ count <= to_size_t(size(v) - offset))
    THEN ctor_count(v.T, dynamic_extent, ptr_add(v.T, data(v), offset),
                    IF count = dynamic_extent THEN to_size_t(size(v) - offset) ELSE count)
    ELSE Failed

\* the static_assert of subview<Offset, Count>() on a statically-extented source
subview_t_compiles(v, Offset, Count) ==
  v.Extent # dynamic_extent =>
    (Offset <= v.Extent /\ (Count = dynamic_extent \/ Count <= to_size_t(v.Extent - Offset)))

subview_t_fromstart(v, Offset, Count) ==
  IF v.Extent = dynamic_extent
     /\ ~(Offset <= size(v) /\ (Count = dynamic_extent \/ Count <= to_size_t(size(v) - Offset)))
    THEN Failed
    ELSE IF Count = dynamic_extent
      THEN IF v.Extent = dynamic_extent
        THEN ctor_count(v.T, dynamic_extent, data(v), to_size_t(size(v) - Offset))
        ELSE ctor_count(v.T, to_size_t(v.Extent - Offset), data(v), to_size_t(size(v) - Offset))
      ELSE ctor_count(v.T, Count, data(v), Count)
subview_t(v, Offset, Count) ==
  IF v.Extent = dynamic_extent
     /\ ~(Offset <= size(v) /\ (Count = dynamic_extent \/ Count <= to_size_t(size(v) - Offset)))
    THEN Failed
    ELSE IF Count = dynamic_extent
      THEN IF v.Extent = dynamic_extent
        THEN ctor_count(v.T, dynamic_extent, ptr_add(v.T, data(v), Offset),
                        to_size_t(size(v) - Offset))
        ELSE ctor_count(v.T, to_size_t(v.Extent - Offset), ptr_add(v.T, data(v), Offset),
                        to_size_t(size(v) - Offset))
      ELSE ctor_count(v.T, Count, ptr_add(v.T, data(v), Offset), Count)

first_t_compiles(v, Count) == v.Extent # dynamic_extent => Count <= v.Extent

first_t(v, Count) ==
  IF v.Extent = dynamic_extent /\ ~(Count <= size(v))
    THEN Failed
    ELSE ctor_count(v.T, Count, begin(v), Count)

first(v, count) ==
  IF count <= size(v) THEN ctor_count(v.T, dynamic_extent, begin(v), count) ELSE Failed

last_t_compiles(v, Count) == v.Extent # dynamic_extent => Count <= v.Extent

last_t(v, Count) ==
  IF v.Extent = dynamic_extent /\ ~(Count <= size(v))
    THEN Failed
    ELSE ctor_count(v.T, Count, ptr_add(v.T, end(v), -Count), Count)

last_frombegin(v, count) ==
  IF count <= size(v) THEN ctor_count(v.T, dynamic_extent, begin(v), count) ELSE Failed
last(v, count) ==
  IF count <= size(v)
    THEN ctor_count(v.T, dynamic_extent, ptr_add(v.T, end(v), -count), count)
    ELSE Failed

\* ---------------------------------------------------------- as_bytes
as_bytes_return_type(T) == IF is_const(T) THEN "const byte" ELSE "byte"

as_bytes_return_size(v) ==
  IF v.Extent = dynamic_extent
    THEN dynamic_extent
    ELSE to_size_t((sizeof(v.T) \div sizeof("byte")) * v.Extent)

as_bytes(v) ==
  ctor_count(as_bytes_return_type(v.T), as_bytes_return_size(v), data(v), size_bytes(v))

\* ---------------------------------------------------------- element access
\* addresses dereferenced by operator[], front() and back()
index_addr(v, idx) == ptr_add(v.T, data(v), idx)

front_addr(v) == begin(v)

back_addr(v) == ptr_add(v.T, end(v), -1)

index_checked(v, idx) == idx < size(v)

\* a T object lies at addr inside the backing array
valid_object(T, addr) == Base <= addr /\ addr + sizeof(T) <= StorageEnd

\* ---------------------------------------------------------- the program
VARIABLES
  view,     \* the contiguous_view value the program holds
  op,       \* the name of the operation performed last
  status,   \* "running", "aborted" (an assert failed) or "crashed" (undefined behaviour)
  ret       \* <<x>> when the last operation returned the element x, << >> otherwise

vars == <<view, op, status, ret>>

\* arguments the program passes: every size up to one past the array, and the sentinel
MaxArg == StorageLen + 1

SizeArgs == (0..MaxArg) \cup {dynamic_extent}

Extents == (0..StorageLen) \cup {dynamic_extent}

\* pointers into the backing array, one-past-the-end included
elem_ptr(i) == Base + i * ElemSize

\* what a read through an invalid pointer may yield when it does not fault
UBValues == {0, 1}

Init ==
  /\ view = ctor_default("T", dynamic_extent)
  /\ op = "default"
  /\ status = "running"
  /\ ret = << >>

\* a construction either yields the new view or dies in its assert
Construct(r, o) ==
  /\ status = "running"
  /\ op' = o
  /\ ret' = << >>
  /\ IF r.ok
       THEN view' = r.v /\ status' = status
       ELSE view' = view /\ status' = "aborted"

\* an element access: the assert (if the code has one), then the dereference
Access(checked, addr, o) ==
  /\ status = "running"
  /\ op' = o
  /\ view' = view
  /\ IF ~checked
       THEN status' = "aborted" /\ ret' = << >>
       ELSE IF valid_object(view.T, addr)
         THEN status' = status /\ ret' = <<load(addr, sizeof(view.T))>>
         ELSE \/ status' = "crashed" /\ ret' = << >>
              \/ status' = status /\ ret' \in {<<x>> : x \in UBValues}

DefaultConstruct ==
  \E T \in Types, Extent \in Extents :
    Construct(Done(ctor_default(T, Extent)), "default")

ConstructCount ==
  \E T \in ElemTypes, Extent \in Extents, i \in 0..StorageLen :
    \E count \in 0..(StorageLen - i) :
      Construct(ctor_count(T, Extent, elem_ptr(i), count), "ctor_count")

ConstructRange ==
  \E T \in ElemTypes, Extent \in Extents, i \in 0..StorageLen, j \in 0..StorageLen :
    Construct(ctor_range(T, Extent, elem_ptr(i), elem_ptr(j)), "ctor_range")

Copy == Construct(Done(view), "copy")

Convert ==
  \E T \in Types, Extent \in Extents \cup {view.Extent} :
    /\ convert_compiles(T, Extent, view)
    /\ Construct(ctor_convert(T, Extent, view), "convert")

Subview ==
  \E offset \in SizeArgs, count \in SizeArgs :
    Construct(subview(view, offset, count), "subview")

SubviewT ==
  \E Offset \in SizeArgs, Count \in SizeArgs :
    /\ subview_t_compiles(view, Offset, Count)
    /\ Construct(subview_t(view, Offset, Count), "subview_t")

First ==
  \E count \in SizeArgs :
    Construct(first(view, count), "first")

FirstT ==
  \E Count \in SizeArgs :
    /\ first_t_compiles(view, Count)
    /\ Construct(first_t(view, Count), "first_t")

Last ==
  \E count \in SizeArgs :
    Construct(last(view, count), "last")

LastT ==
  \E Count \in SizeArgs :
    /\ last_t_compiles(view, Count)
    /\ Construct(last_t(view, Count), "last_t")

AsBytes == Construct(as_bytes(view), "as_bytes")

Index ==
  \E idx \in SizeArgs :
    Access(index_checked(view, idx), index_addr(view, idx), "index")

Front == Access(TRUE, front_addr(view), "front")

Back == Access(TRUE, back_addr(view), "back")

Next ==
  \/ DefaultConstruct
  \/ ConstructCount
  \/ ConstructRange
  \/ Copy
  \/ Convert
  \/ Subview
  \/ SubviewT
  \/ First
  \/ FirstT
  \/ Last
  \/ LastT
  \/ AsBytes
  \/ Index
  \/ Front
  \/ Back

Spec == Init /\ [][Next]_vars

TypeOK ==
  /\ view.T \in Types
  /\ status \in {"running", "aborted", "crashed"}
  /\ Len(ret) <= 1

\* ---------------------------------------------------------- properties
\* the elements a view over the backing array refers to
Elements(v) == [i \in 1..size(v) |-> load(ptr_add(v.T, data(v), i - 1), sizeof(v.T))]

OverArray(v) == size(v) = 0 \/ (Base <= data(v) /\ end(v) <= StorageEnd)

WholeArray(T) == ctor_count(T, dynamic_extent, elem_ptr(0), StorageLen).v

\* C1: a statically-extented view's size() equals its Extent, however the
\* view was obtained (any constructor, copy, conversion, sub-range, as_bytes).
StaticSizeIsExtent ==
  view.Extent # dynamic_extent => size(view) = view.Extent

StaticSizeIsExtent_Witness ==
  /\ status = "running"
  /\ op = "as_bytes"
  /\ view.Extent = StorageLen * ElemSize
  /\ data(view) = elem_ptr(0)

\* C2: a default-constructed view is empty for every extent: data() is null
\* and size() is 0.
DefaultIsEmpty ==
  (op = "default" /\ status = "running") =>
    (data(view) = nullptr /\ size(view) = 0 /\ empty(view))

\* C3: every view the program holds is empty or refers to size() elements
\* that lie inside the backing array.
DataModelInvariant ==
  status = "running" => (size(view) = 0 \/ OverArray(view))

\* C4: v.subview(a, b).subview(c, d) has the data() and size() of
\* v.subview(a + c, d) whenever both are in bounds.
SubviewComposes ==
  \A a \in 0..size(view) :
    \A b \in 0..(size(view) - a) :
      \A c \in 0..b :
        \A d \in 0..(b - c) :
          LET inner == subview(view, a, b)
              l == subview(inner.v, c, d)
              r == subview(view, a + c, d)
          IN /\ inner.ok /\ l.ok /\ r.ok
             /\ data(l.v) = data(r.v)
             /\ size(l.v) = size(r.v)
             /\ data(l.v) = ptr_add(view.T, data(view), a + c)
             /\ size(l.v) = d

SubviewComposes_Witness ==
  /\ status = "running"
  /\ op = "subview"
  /\ view.Extent = dynamic_extent
  /\ data(view) = data(subview(subview(WholeArray("T"), 1, 3).v, 1, 2).v)
  /\ size(view) = size(subview(subview(WholeArray("T"), 1, 3).v, 1, 2).v)

\* C5: for n <= size(), first(n) is the n elements at data() and last(n) the
\* n elements ending at data() + size(); over [10,20,30,40,50] first<2>() is
\* [10,20], last(2) is [40,50] and subview(1,3) is [20,30,40].
FirstLastElements ==
  /\ \A n \in 0..size(view) :
       LET f == first(view, n)
           l == last(view, n)
       IN /\ f.ok /\ size(f.v) = n /\ data(f.v) = data(view)
          /\ l.ok /\ size(l.v) = n
          /\ data(l.v) = ptr_add(view.T, data(view), size(view) - n)
          /\ (first_t_compiles(view, n) =>
                /\ first_t(view, n).ok
                /\ size(first_t(view, n).v) = n
                /\ data(first_t(view, n).v) = data(view))
          /\ (last_t_compiles(view, n) =>
                /\ last_t(view, n).ok
                /\ size(last_t(view, n).v) = n
                /\ data(last_t(view, n).v) = data(l.v))
          /\ (OverArray(view) =>
                /\ Elements(f.v) = SubSeq(Elements(view), 1, n)
                /\ Elements(l.v) = SubSeq(Elements(view), size(view) - n + 1, size(view)))
  /\ (/\ sizeof(view.T) = ElemSize
      /\ data(view) = elem_ptr(0)
      /\ size(view) = 5) =>
       /\ Elements(view) = <<10, 20, 30, 40, 50>>
       /\ Elements(first_t(view, 2).v) = <<10, 20>>
       /\ Elements(last(view, 2).v) = <<40, 50>>
       /\ Elements(subview(view, 1, 3).v) = <<20, 30, 40>>

FirstLastElements_Witness ==
  /\ status = "running"
  /\ op = "last"
  /\ size(view) = 2
  /\ data(view) = elem_ptr(3)
  /\ Elements(view) = <<40, 50>>

\* C6: converting a dynamic-extent view of length n to static extent N yields
\* a view with the same data() and size() N when n = N and dies in the assert
\* when n # N.
ConvertDynamicToStatic ==
  view.Extent = dynamic_extent =>
    \A T \in Types, N \in 0..MaxArg :
      convert_compiles(T, N, view) =>
        LET r == ctor_convert(T, N, view)
        IN IF size(view) = N
             THEN r.ok /\ data(r.v) = data(view) /\ size(r.v) = N /\ r.v.Extent = N
             ELSE ~r.ok

ConvertDynamicToStatic_Witness ==
  /\ status = "aborted"
  /\ op = "convert"
  /\ view.Extent = dynamic_extent
  /\ size(view) = 5

\* C7: front() and back() on an empty view die in an assert before any
\* element is dereferenced.
EmptyAccessHalts ==
  (op \in {"front", "back"} /\ size(view) = 0) => status = "aborted"

\* C8: as_bytes() addresses the same memory with size() * sizeof(T) elements;
\* its extent is Extent * sizeof(T) for a static source and dynamic for a
\* dynamic one, and its construction passes the static-extent count check.
AsBytesSameMemory ==
  LET r == as_bytes(view)
  IN /\ r.ok
     /\ size(r.v) = size(view) * sizeof(view.T)
     /\ data(r.v) = data(view)
     /\ sizeof(r.v.T) = 1
     /\ r.v.Extent = IF view.Extent = dynamic_extent
                       THEN dynamic_extent
                       ELSE view.Extent * sizeof(view.T)

AsBytesSameMemory_Witness ==
  /\ status = "running"
  /\ op = "as_bytes"
  /\ view.Extent = 3 * ElemSize
  /\ data(view) = elem_ptr(1)

\* C9: subview, first and last (and their templated forms on a dynamic
\* source) die in the assert unless offset <= size() and count <= size() -
\* offset; subview(offset) alone is the size() - offset elements at data() +
\* offset.
InBounds(v, offset, count) == offset <= size(v) /\ count <= size(v) - offset

SubrangeBoundsEnforced ==
  \A offset \in SizeArgs, count \in SizeArgs :
    /\ (count # dynamic_extent /\ ~InBounds(view, offset, count)) =>
         ~subview(view, offset, count).ok
    /\ ~InBounds(view, offset, 0) => ~subview(view, offset, dynamic_extent).ok
    /\ ~InBounds(view, 0, count) => (~first(view, count).ok /\ ~last(view, count).ok)
    /\ view.Extent = dynamic_extent =>
         /\ (count # dynamic_extent /\ ~InBounds(view, offset, count)) =>
              ~subview_t(view, offset, count).ok
         /\ ~InBounds(view, offset, 0) => ~subview_t(view, offset, dynamic_extent).ok
         /\ ~InBounds(view, 0, count) =>
              (~first_t(view, count).ok /\ ~last_t(view, count).ok)
    /\ InBounds(view, offset, 0) =>
         LET r == subview(view, offset, dynamic_extent)
         IN /\ r.ok
            /\ size(r.v) = size(view) - offset
            /\ data(r.v) = ptr_add(view.T, data(view), offset)
            /\ (offset = size(view) => empty(r.v))

SubrangeBoundsEnforced_Witness ==
  /\ status = "aborted"
  /\ op = "subview"
  /\ size(view) = 3

\* C10: subview<Offset, Count>() returns the data() and size() of
\* subview(Offset, Count); its extent is Count if given, else Extent - Offset
\* for a static source and dynamic for a dynamic one, and its construction
\* passes the static-extent count check.
TemplatedSubviewAgrees ==
  \A Offset \in SizeArgs, Count \in SizeArgs :
    (/\ subview_t_compiles(view, Offset, Count)
     /\ InBounds(view, Offset, IF Count = dynamic_extent THEN 0 ELSE Count)) =>
      LET t == subview_t(view, Offset, Count)
          r == subview(view, Offset, Count)
      IN /\ t.ok /\ r.ok
         /\ data(t.v) = data(r.v)
         /\ size(t.v) = size(r.v)
         /\ t.v.Extent = IF Count # dynamic_extent
                           THEN Count
                           ELSE IF view.Extent # dynamic_extent
                             THEN view.Extent - Offset
                             ELSE dynamic_extent

TemplatedSubviewAgrees_Witness ==
  /\ status = "running"
  /\ op = "subview_t"
  /\ view.Extent = 2
  /\ data(view) = elem_ptr(2)

====
